---- MODULE Spec2Model ----
(***************************************************************************)
(* State-machine model of the aw8697 vibrator HAL service                  *)
(* (vibrator/Vibrator.cpp): the binder entry points off, on, perform,      *)
(* compose and composePwle, the driver-node writes they make, and the      *)
(* detached completion threads they start.                                 *)
(*                                                                         *)
(* Numbers.  float values are kept in hundredths (1.0 is 100, 150 Hz is    *)
(* 15000) and NaN is a separate value whose comparisons are all false.     *)
(* uint32_t values are pairs <<hi, lo>> of 16-bit halves, so that the      *)
(* arithmetic modulo 2^32 is exact.                                        *)
(***************************************************************************)
EXTENDS Integers, Sequences, FiniteSets, TLC

\* ---------------------------------------------------------------- bounds
MaxCalls == 2      \* binder calls made in one behaviour of Spec
MaxLen == 3        \* longest PWLE composition drawn by SpecPwle

\* ------------------------------------------------------- program constants
COMPOSE_DELAY_MAX_MS == 1000
COMPOSE_SIZE_MAX == 256
COMPOSE_PWLE_SIZE_MAX == 127
COMPOSE_PWLE_PRIMITIVE_DURATION_MAX_MS == 16383
PWLE_LEVEL_MIN == 0            \* 0.0
PWLE_LEVEL_MAX == 100          \* 1.0
PWLE_FREQUENCY_MIN_HZ == 14000 \* 140.0
PWLE_FREQUENCY_MAX_HZ == 16000 \* 160.0

WAVEFORM_TICK_EFFECT_MS == 10
WAVEFORM_TEXTURE_TICK_EFFECT_MS == 20
WAVEFORM_CLICK_EFFECT_MS == 15
WAVEFORM_HEAVY_CLICK_EFFECT_MS == 30
WAVEFORM_DOUBLE_CLICK_EFFECT_MS == 60
WAVEFORM_THUD_EFFECT_MS == 35
WAVEFORM_POP_EFFECT_MS == 15

WAVEFORM_TICK_EFFECT_INDEX == 1
WAVEFORM_TEXTURE_TICK_EFFECT_INDEX == 4
WAVEFORM_CLICK_EFFECT_INDEX == 2
WAVEFORM_HEAVY_CLICK_EFFECT_INDEX == 5
WAVEFORM_DOUBLE_CLICK_EFFECT_INDEX == 6
WAVEFORM_THUD_EFFECT_INDEX == 7

BRAKING_NONE == 0
BRAKING_CLAB == 1

\* ------------------------------------------------------------ C++ numbers
NaN == 0 - 999999

\* IEEE comparisons: every comparison with a NaN operand is false
FLt(a, b) == a # NaN /\ b # NaN /\ a < b
FGt(a, b) == a # NaN /\ b # NaN /\ a > b
FEq(a, b) == a # NaN /\ b # NaN /\ a = b

Half == 2^16

\* conversion of an int32_t to uint32_t (value modulo 2^32)
U32(x) == <<(x \div Half) % Half, x % Half>>

\* uint32_t += int32_t
U32Add(u, x) ==
    LET lo == u[2] + (x % Half)
        hi == u[1] + ((x \div Half) % Half) + (lo \div Half)
    IN  <<hi % Half, lo % Half>>

\* uint32_t * int, the product again a uint32_t
U32Mul(u, k) ==
    LET lo == u[2] * k
        hi == u[1] * k + (lo \div Half)
    IN  <<hi % Half, lo % Half>>

\* the uint32_t u holds exactly the mathematical integer n
U32Is(u, n) == n >= 0 /\ n \div Half < Half /\ u = <<n \div Half, n % Half>>


\* ------------------------------------------------------ PWLE segment tokens
\* "S:0,WF:4,RP:0,WT:0"
PwleHeader == [S |-> 0, WF |-> 4, RP |-> 0, WT |-> 0]

\* variant: the amplitude is written as the frequency and the frequency as
\* the level
ActiveTokenSwapped(segmentIdx, duration, amplitude, frequency) ==
    [idx |-> segmentIdx, T |-> duration, L |-> frequency, F |-> amplitude,
     C |-> 1, B |-> 0, AR |-> 0, V |-> 0]

\* ",T<i>:<duration>,L<i>:<amplitude>,F<i>:<frequency>" followed by the
\* active defaults ",C<i>:1,B<i>:0,AR<i>:0,V<i>:0"
ActiveToken(segmentIdx, duration, amplitude, frequency) ==
    [idx |-> segmentIdx, T |-> duration, L |-> amplitude, F |-> frequency,
     C |-> 1, B |-> 0, AR |-> 0, V |-> 0]

\* ",T<i>:<duration>,L<i>:0,F<i>:0,C<i>:0,B<i>:<type>,AR<i>:0,V<i>:0"
BrakingToken(segmentIdx, duration, brakingType) ==
    [idx |-> segmentIdx, T |-> duration, L |-> 0, F |-> 0,
     C |-> 0, B |-> brakingType, AR |-> 0, V |-> 0]

constructActiveSegment(pwleBuilder, segmentIdx, duration, amplitude, frequency) ==
    Append(pwleBuilder, ActiveToken(segmentIdx, duration, amplitude, frequency))

constructBrakingSegment(pwleBuilder, segmentIdx, duration, brakingType) ==
    Append(pwleBuilder, BrakingToken(segmentIdx, duration, brakingType))

\* variant: the index is advanced by two
IncrementSkips(index) == index + 2

incrementIndex(index) == index + 1

\* the value resetPreviousEndAmplitudeEndFrequency stores: -1.0
ResetValue == 0 - 100

\* variant: the cursor is left as it was
ResetKeepsCursor(l) == l

resetPreviousEndAmplitudeEndFrequency(l) ==
    [l EXCEPT !.prevEndAmplitude = ResetValue, !.prevEndFrequency = ResetValue]

\* ------------------------------------------- composePwle, the local frame
\* the automatic variables of one composePwle call before the size check
NoFrame ==
    [pos |-> 0, prevEndAmplitude |-> 0, prevEndFrequency |-> 0,
     segmentIdx |-> 0, totalDuration |-> <<0, 0>>, pwleBuilder |-> <<>>]

\* the frame on entry to the for loop
PwleEnter ==
    resetPreviousEndAmplitudeEndFrequency(
        [NoFrame EXCEPT !.segmentIdx = 0, !.totalDuration = U32(0),
                        !.pwleBuilder = <<PwleHeader>>])

\* variant: a composition of exactly COMPOSE_PWLE_SIZE_MAX segments is refused
PwleSizeOkExclusive(composite) ==
    ~(Len(composite) <= 0 \/ Len(composite) >= COMPOSE_PWLE_SIZE_MAX)

PwleSizeOk(composite) ==
    ~(Len(composite) <= 0 \/ Len(composite) > COMPOSE_PWLE_SIZE_MAX)

ActiveValid(active) ==
    /\ ~(active.duration < 0 \/
         active.duration > COMPOSE_PWLE_PRIMITIVE_DURATION_MAX_MS)
    /\ ~(FLt(active.startAmplitude, PWLE_LEVEL_MIN) \/
         FGt(active.startAmplitude, PWLE_LEVEL_MAX) \/
         FLt(active.endAmplitude, PWLE_LEVEL_MIN) \/
         FGt(active.endAmplitude, PWLE_LEVEL_MAX))
    /\ ~(FLt(active.startFrequency, PWLE_FREQUENCY_MIN_HZ) \/
         FGt(active.startFrequency, PWLE_FREQUENCY_MAX_HZ) \/
         FLt(active.endFrequency, PWLE_FREQUENCY_MIN_HZ) \/
         FGt(active.endFrequency, PWLE_FREQUENCY_MAX_HZ))

BrakingValid(braking) ==
    /\ ~(braking.braking > BRAKING_CLAB)
    /\ ~(braking.duration > COMPOSE_PWLE_PRIMITIVE_DURATION_MAX_MS)

\* variant: a setup token for every active segment
NeedsSetupAlways(l, active) == TRUE

\* variant: a setup token only when amplitude and frequency both differ
NeedsSetupBothDiffer(l, active) ==
    ~(FEq(active.startAmplitude, l.prevEndAmplitude) \/
      FEq(active.startFrequency, l.prevEndFrequency))

\* the continuity test of an active segment against the cursor
NeedsSetup(l, active) ==
    ~(FEq(active.startAmplitude, l.prevEndAmplitude) /\
      FEq(active.startFrequency, l.prevEndFrequency))

\* case PrimitivePwle::active, after the range checks
EncodeActive(l, active) ==
    LET b1 == IF NeedsSetup(l, active)
              THEN constructActiveSegment(l.pwleBuilder, l.segmentIdx, 0,
                                          active.startAmplitude,
                                          active.startFrequency)
              ELSE l.pwleBuilder
        i1 == IF NeedsSetup(l, active)
              THEN incrementIndex(l.segmentIdx) ELSE l.segmentIdx
        b2 == constructActiveSegment(b1, i1, active.duration,
                                     active.endAmplitude, active.endFrequency)
        i2 == incrementIndex(i1)
    IN  [l EXCEPT !.pwleBuilder = b2, !.segmentIdx = i2,
                  !.prevEndAmplitude = active.endAmplitude,
                  !.prevEndFrequency = active.endFrequency,
                  !.totalDuration = U32Add(@, active.duration),
                  !.pos = @ + 1]

\* variant: a braking segment is encoded as its real token alone
EncodeBrakingOneToken(l, braking) ==
    [resetPreviousEndAmplitudeEndFrequency(l) EXCEPT
        !.pwleBuilder = constructBrakingSegment(@, l.segmentIdx,
                                                braking.duration, braking.braking),
        !.segmentIdx = incrementIndex(@),
        !.totalDuration = U32Add(@, braking.duration),
        !.pos = @ + 1]

\* case PrimitivePwle::braking, after the range checks
EncodeBraking(l, braking) ==
    LET b1 == constructBrakingSegment(l.pwleBuilder, l.segmentIdx, 0,
                                      braking.braking)
        i1 == incrementIndex(l.segmentIdx)
        b2 == constructBrakingSegment(b1, i1, braking.duration, braking.braking)
        i2 == incrementIndex(i1)
    IN  [resetPreviousEndAmplitudeEndFrequency(l) EXCEPT
                  !.pwleBuilder = b2, !.segmentIdx = i2,
                  !.totalDuration = U32Add(@, braking.duration),
                  !.pos = @ + 1]

\* one iteration of the for loop on entry e: the status it returns with
\* ("none" when the loop goes on) and the frame it leaves
PwleStep(l, e) ==
    IF e.tag = "active"
    THEN IF ActiveValid(e)
         THEN [status |-> "none", frame |-> EncodeActive(l, e)]
         ELSE [status |-> "EX_ILLEGAL_ARGUMENT", frame |-> l]
    ELSE IF BrakingValid(e)
         THEN [status |-> "none", frame |-> EncodeBraking(l, e)]
         ELSE [status |-> "EX_ILLEGAL_ARGUMENT", frame |-> l]

\* the whole loop run by itself on a composition, from frame l
RECURSIVE PwleLoop(_, _)
PwleLoop(l, composite) ==
    IF l.pos >= Len(composite) THEN [status |-> "none", frame |-> l]
    ELSE LET r == PwleStep(l, composite[l.pos + 1])
         IN  IF r.status # "none" THEN r ELSE PwleLoop(r.frame, composite)

\* ------------------------------------------------------------ perform
SupportedEffects ==
    {"TICK", "TEXTURE_TICK", "CLICK", "HEAVY_CLICK", "DOUBLE_CLICK", "THUD",
     "POP"}

\* the switch of perform: the firmware index and the duration of an effect
EffectIndex(effect) ==
    CASE effect = "TICK" -> WAVEFORM_TICK_EFFECT_INDEX
      [] effect = "TEXTURE_TICK" -> WAVEFORM_TEXTURE_TICK_EFFECT_INDEX
      [] effect = "CLICK" -> WAVEFORM_CLICK_EFFECT_INDEX
      [] effect = "HEAVY_CLICK" -> WAVEFORM_HEAVY_CLICK_EFFECT_INDEX
      [] effect = "DOUBLE_CLICK" -> WAVEFORM_DOUBLE_CLICK_EFFECT_INDEX
      [] effect = "THUD" -> WAVEFORM_THUD_EFFECT_INDEX
      [] effect = "POP" -> WAVEFORM_TICK_EFFECT_INDEX

EffectTimeMs(effect) ==
    CASE effect = "TICK" -> WAVEFORM_TICK_EFFECT_MS
      [] effect = "TEXTURE_TICK" -> WAVEFORM_TEXTURE_TICK_EFFECT_MS
      [] effect = "CLICK" -> WAVEFORM_CLICK_EFFECT_MS
      [] effect = "HEAVY_CLICK" -> WAVEFORM_HEAVY_CLICK_EFFECT_MS
      [] effect = "DOUBLE_CLICK" -> WAVEFORM_DOUBLE_CLICK_EFFECT_MS
      [] effect = "THUD" -> WAVEFORM_THUD_EFFECT_MS
      [] effect = "POP" -> WAVEFORM_POP_EFFECT_MS

\* the two node writes of on()
OnWrites(timeoutMs) ==
    <<[node |-> "duration", value |-> timeoutMs],
      [node |-> "activate", value |-> 1]>>

\* the node writes of perform(): the effect index, then on(timeMs, nullptr)
PerformWrites(effect) ==
    <<[node |-> "index", value |-> EffectIndex(effect)]>>
        \o OnWrites(EffectTimeMs(effect))

\* the two node writes of off()
OffWrites ==
    <<[node |-> "index", value |-> 0], [node |-> "activate", value |-> 0]>>

\* ------------------------------------------------------------ compose
SupportedPrimitives ==
    {"NOOP", "CLICK", "THUD", "SPIN", "QUICK_RISE", "SLOW_RISE", "QUICK_FALL",
     "LIGHT_TICK", "LOW_TICK"}

\* getPrimitiveDuration on a supported primitive
PrimitiveDurationMs(primitive) == IF primitive # "NOOP" THEN 100 ELSE 0

\* the checks of one entry in the validation loop of compose
ComposeEntryStatus(e) ==
    IF e.delayMs > COMPOSE_DELAY_MAX_MS THEN "EX_ILLEGAL_ARGUMENT"
    ELSE IF FLt(e.scale, 0) \/ FGt(e.scale, 100) THEN "EX_ILLEGAL_ARGUMENT"
    ELSE IF e.primitive \notin SupportedPrimitives
         THEN "EX_UNSUPPORTED_OPERATION"
    ELSE "OK"

\* the validation loop of compose from entry i on: the status of the first
\* entry that fails a check, or OK
ComposeLoopStatus(composite, i) ==
    LET failing == {j \in i..Len(composite) :
                        ComposeEntryStatus(composite[j]) # "OK"}
    IN  IF failing = {} THEN "OK"
        ELSE ComposeEntryStatus(
                composite[CHOOSE j \in failing : \A k \in failing : j <= k])

\* variant: a composition of exactly COMPOSE_SIZE_MAX entries is refused
ComposeStatusSizeExclusive(composite) ==
    IF Len(composite) >= COMPOSE_SIZE_MAX THEN "EX_ILLEGAL_ARGUMENT"
    ELSE ComposeLoopStatus(composite, 1)

ComposeStatus(composite) ==
    IF Len(composite) > COMPOSE_SIZE_MAX THEN "EX_ILLEGAL_ARGUMENT"
    ELSE ComposeLoopStatus(composite, 1)

\* the usleep calls the compose thread makes for one entry, in microseconds
ComposeEntrySleeps(e) ==
    (IF e.delayMs # 0 THEN <<U32(e.delayMs * 1000)>> ELSE <<>>)
        \o <<U32(PrimitiveDurationMs(e.primitive) * 1000)>>

\* ------------------------------------------------------------ the threads
\* the values a thread lambda captures by copy besides the callback
Captured(ms, total, composite) ==
    [timeoutMs |-> ms, totalDuration |-> total, composite |-> composite]

NoCapture == Captured(0, <<0, 0>>, <<>>)

NoThread ==
    [state |-> "none", callback |-> 0, captured |-> NoCapture, pos |-> 0,
     sleeps |-> <<>>]

\* std::thread(...).detach() capturing the callback (0 is nullptr) and one
\* set of values by copy
StartThread(cb, value) ==
    [state |-> "running", callback |-> cb, captured |-> value, pos |-> 0,
     sleeps |-> <<>>]

\* variant: the thread is started before the checks
ThreadBeforeChecks(st, cb, value) == StartThread(cb, value)

\* compose and composePwle reach their std::thread statement only when no
\* check has returned before it
ThreadOnReturn(st, cb, value) ==
    IF st = "OK" THEN StartThread(cb, value) ELSE NoThread

\* variant: no notification after a wait of zero
InvocationsIfSlept(t) ==
    IF t.callback # 0 /\ (\E i \in DOMAIN t.sleeps : t.sleeps[i] # <<0, 0>>)
    THEN 1 ELSE 0

\* how many times a thread that reached its final statement calls
\* callback->onComplete()
Invocations(t) == IF t.callback # 0 THEN 1 ELSE 0

\* ------------------------------------------------------------ the inputs
Active(d, sa, ea, sf, ef) ==
    [tag |-> "active", duration |-> d, startAmplitude |-> sa,
     endAmplitude |-> ea, startFrequency |-> sf, endFrequency |-> ef]

Braking(d, b) == [tag |-> "braking", duration |-> d, braking |-> b]

Effect(p, d, sc) == [primitive |-> p, delayMs |-> d, scale |-> sc]

RECURSIVE SeqsUpTo(_, _)
SeqsUpTo(S, n) ==
    IF n = 0 THEN {<<>>}
    ELSE LET R == SeqsUpTo(S, n - 1)
         IN  R \cup {Append(q, x) : q \in {r \in R : Len(r) = n - 1}, x \in S}

\* (amplitude, frequency) points inside the limits: the first two differ in
\* amplitude only, the last two in frequency only
Points == {<<0, 15000>>, <<50, 15000>>, <<50, 16000>>}

ActiveInRange ==
    {Active(100, s[1], e[1], s[2], e[2]) : s \in Points, e \in Points}
        \cup {Active(0, 0, 0, 15000, 15000)}

\* segments with one field on or past a limit, or a NaN
ActiveAtLimits ==
    {Active(16383, 0, 100, 14000, 16000),
     Active(16384, 0, 50, 15000, 15000),
     Active(0 - 1, 0, 50, 15000, 15000),
     Active(100, ResetValue, 50, ResetValue, 15000),
     Active(100, 0, 101, 15000, 15000),
     Active(100, 0, 50, 13999, 15000),
     Active(100, NaN, 50, 15000, 15000),
     Active(100, 50, NaN, 15000, 15000)}

BrakingSegments ==
    {Braking(50, BRAKING_CLAB), Braking(0, BRAKING_NONE),
     Braking(16383, BRAKING_CLAB), Braking(16384, BRAKING_CLAB),
     Braking(0 - 1, BRAKING_NONE), Braking(50, 2)}

PwleSegments == ActiveInRange \cup ActiveAtLimits \cup BrakingSegments

\* the compositions SpecPwle draws
PwleCompositions == SeqsUpTo(PwleSegments, MaxLen)

\* the requests the clients of Spec make
OnTimeouts == {0, 7}

PerformEffects == SupportedEffects \cup {"RINGTONE_1"}

ComposeRequests ==
    {<<>>,
     <<Effect("CLICK", 5, 100), Effect("NOOP", 0, 50)>>,
     <<Effect("THUD", 0, 100), Effect("CLICK", 1001, 100)>>,
     <<Effect("BOGUS", 0, 100)>>}

PwleRequests ==
    {<<>>,
     <<Active(100, 0, 50, 15000, 15000), Active(0, 50, 100, 15000, 15000)>>,
     <<Braking(0, BRAKING_CLAB), Active(0, 0, 0, 15000, 15000)>>,
     <<Active(100, 0, 50, 15000, 15000), Active(16384, 50, 50, 15000, 15000)>>}

\* the requests the clients of FairSpec make
FairOnTimeouts == {0}

FairPerformEffects == {"DOUBLE_CLICK", "RINGTONE_1"}

FairComposeRequests ==
    {<<>>, <<Effect("CLICK", 5, 100), Effect("NOOP", 0, 50)>>}

FairPwleRequests ==
    {<<Braking(0, BRAKING_CLAB), Active(0, 0, 0, 15000, 15000)>>,
     <<Active(100, 0, 50, 15000, 15000), Active(16384, 50, 50, 15000, 15000)>>}

\* a composition of n copies of one entry
Repeat(n, e) == [i \in 1..n |-> e]

\* compositions of primitives at the size limit, at the per-entry limits and
\* past them, and with more than one violation
LimitComposeRequests ==
    {Repeat(n, Effect("CLICK", 0, 100)) :
        n \in {0, 1, COMPOSE_SIZE_MAX, COMPOSE_SIZE_MAX + 1}}
    \cup {Repeat(COMPOSE_SIZE_MAX + 1, Effect("BOGUS", 0, 100)),
          <<Effect("CLICK", 5, 100), Effect("NOOP", 0, 50),
            Effect("THUD", COMPOSE_DELAY_MAX_MS, 0)>>,
          <<Effect("NOOP", 7, 100)>>,
          <<Effect("LOW_TICK", 0, 100), Effect("SPIN", COMPOSE_DELAY_MAX_MS + 1, 100)>>,
          <<Effect("CLICK", 0, 101)>>,
          <<Effect("CLICK", 0, 0 - 1)>>,
          <<Effect("BOGUS", 0, 100)>>,
          <<Effect("BOGUS", COMPOSE_DELAY_MAX_MS + 1, 100)>>,
          <<Effect("BOGUS", 0, 101)>>,
          <<Effect("BOGUS", 0, 100), Effect("CLICK", COMPOSE_DELAY_MAX_MS + 1, 100)>>,
          <<Effect("CLICK", COMPOSE_DELAY_MAX_MS + 1, 100), Effect("BOGUS", 0, 100)>>,
          <<Effect("CLICK", 0, 100), Effect("BOGUS", 0, 100), Effect("CLICK", 0, 101)>>,
          <<Effect("CLICK", 0 - 1, 100)>>,
          <<Effect("QUICK_RISE", 0, NaN)>>,
          <<Effect("CLICK", 0, NaN), Effect("BOGUS", 0, 100)>>}

\* segments on their limits
SegmentsOnLimits ==
    {Active(COMPOSE_PWLE_PRIMITIVE_DURATION_MAX_MS, PWLE_LEVEL_MIN,
            PWLE_LEVEL_MAX, PWLE_FREQUENCY_MIN_HZ, PWLE_FREQUENCY_MAX_HZ),
     Active(0, PWLE_LEVEL_MAX, PWLE_LEVEL_MIN, PWLE_FREQUENCY_MAX_HZ,
            PWLE_FREQUENCY_MIN_HZ),
     Braking(COMPOSE_PWLE_PRIMITIVE_DURATION_MAX_MS, BRAKING_CLAB),
     Braking(0, BRAKING_NONE)}

\* segments with one field past a limit, or not a number
SegmentsPastLimits ==
    {Active(0 - 1, 0, 50, 15000, 15000),
     Active(COMPOSE_PWLE_PRIMITIVE_DURATION_MAX_MS + 1, 0, 50, 15000, 15000),
     Active(100, 0 - 1, 50, 15000, 15000),
     Active(100, 101, 50, 15000, 15000),
     Active(100, 0, 0 - 1, 15000, 15000),
     Active(100, 0, 101, 15000, 15000),
     Active(100, 0, 50, 13999, 15000),
     Active(100, 0, 50, 16001, 15000),
     Active(100, 0, 50, 15000, 13999),
     Active(100, 0, 50, 15000, 16001),
     Active(100, NaN, 50, 15000, 15000),
     Active(100, 0, NaN, 15000, 15000),
     Active(100, 0, 50, NaN, 15000),
     Active(100, 0, 50, 15000, NaN),
     Braking(50, BRAKING_CLAB + 1),
     Braking(COMPOSE_PWLE_PRIMITIVE_DURATION_MAX_MS + 1, BRAKING_NONE)}

\* PWLE compositions at the size limit and past it, the longest compositions
\* (every segment of the longest duration), and compositions whose first or
\* last segment is on or past a limit
LimitPwleRequests ==
    {Repeat(n, Active(100, 0, 50, 15000, 15000)) :
        n \in {0, 1, COMPOSE_PWLE_SIZE_MAX, COMPOSE_PWLE_SIZE_MAX + 1}}
    \cup {Repeat(COMPOSE_PWLE_SIZE_MAX + 1, Braking(50, BRAKING_CLAB + 1))}
    \cup {Repeat(COMPOSE_PWLE_SIZE_MAX,
                 Active(COMPOSE_PWLE_PRIMITIVE_DURATION_MAX_MS, 0, 50, 15000,
                        15000)),
          Repeat(COMPOSE_PWLE_SIZE_MAX,
                 Braking(COMPOSE_PWLE_PRIMITIVE_DURATION_MAX_MS, BRAKING_CLAB))}
    \cup {<<e>> : e \in SegmentsOnLimits \cup SegmentsPastLimits}
    \cup {<<Active(100, 0, 50, 15000, 15000), e>> :
            e \in SegmentsOnLimits \cup SegmentsPastLimits}

\* the header's kEffectMillis is one constant; its value is not in this file
KEffectMillisValues == {15, 100}

\* ------------------------------------------------------------ the state
VARIABLES
    nCalls,         \* binder calls made so far; call c is the c-th
    op,             \* op[c]: the entry point of call c
    arg,            \* arg[c]: its argument
    callback,       \* callback[c]: its completion handle, 0 for nullptr
    pc,             \* pc[c]: "idle", "entered", "loop" or "returned"
    status,         \* status[c]: the ScopedAStatus returned, "none" before
    ret,            \* ret[c]: *_aidl_return of perform
    written,        \* written[c]: the write_haptic_node calls of call c
    frame,          \* frame[f]: the automatic variables of composePwle
    thread,         \* thread[c]: the detached thread call c started
    notified,       \* notified[h]: onComplete() invocations on handle h
    kEffectMillis   \* the sleep of perform's thread, in ms

vars == <<nCalls, op, arg, callback, pc, status, ret, written, frame, thread,
          notified, kEffectMillis>>

Calls == 1..MaxCalls

\* variant: the locals of composePwle are static, one frame for all calls
FrameStatic(c) == 1

\* each call of composePwle has a stack frame of its own
Frame(c) == c

\* the arguments of a call, apart from the callback
Args(ms, effect, composite) ==
    [timeoutMs |-> ms, effect |-> effect, composite |-> composite]

NoArgs == Args(0, "", <<>>)

Init ==
    /\ nCalls = 0
    /\ op = [c \in Calls |-> "none"]
    /\ arg = [c \in Calls |-> NoArgs]
    /\ callback = [c \in Calls |-> 0]
    /\ pc = [c \in Calls |-> "idle"]
    /\ status = [c \in Calls |-> "none"]
    /\ ret = [c \in Calls |-> 0]
    /\ written = [c \in Calls |-> <<>>]
    /\ frame = [c \in Calls |-> NoFrame]
    /\ thread = [c \in Calls |-> NoThread]
    /\ notified = [c \in Calls |-> 0]
    /\ kEffectMillis \in KEffectMillisValues

\* a client makes the next binder call
Enter(c, o, a, hasCallback) ==
    /\ nCalls < MaxCalls
    /\ c = nCalls + 1
    /\ nCalls' = c
    /\ op' = [op EXCEPT ![c] = o]
    /\ arg' = [arg EXCEPT ![c] = a]
    /\ callback' = [callback EXCEPT ![c] = IF hasCallback THEN c ELSE 0]
    /\ UNCHANGED kEffectMillis

Return(c, st) ==
    /\ pc' = [pc EXCEPT ![c] = "returned"]
    /\ status' = [status EXCEPT ![c] = st]

\* variant: off() cancels the completion threads that have not finished
OffCancelsThreads(th) ==
    [c \in DOMAIN th |-> IF th[c].state = "running" THEN NoThread ELSE th[c]]

\* the detached threads after off(): it writes two nodes and has no
\* reference to any thread
ThreadsAfterOff(th) == th

\* Vibrator::off
Off ==
    \E c \in Calls :
        /\ Enter(c, "off", NoArgs, FALSE)
        /\ written' = [written EXCEPT ![c] = OffWrites]
        /\ thread' = ThreadsAfterOff(thread)
        /\ Return(c, "OK")
        /\ UNCHANGED <<ret, frame, notified>>

\* Vibrator::on
On(timeouts) ==
    \E c \in Calls, timeoutMs \in timeouts, hasCallback \in BOOLEAN :
        /\ Enter(c, "on", Args(timeoutMs, "", <<>>), hasCallback)
        /\ written' = [written EXCEPT ![c] = OnWrites(timeoutMs)]
        /\ thread' = [thread EXCEPT ![c] =
                        IF hasCallback THEN StartThread(c, Captured(timeoutMs, <<0, 0>>, <<>>))
                        ELSE NoThread]
        /\ Return(c, "OK")
        /\ UNCHANGED <<ret, frame, notified>>

\* the thread of on: usleep(timeoutMs * 1000); callback->onComplete()
OnThread ==
    \E c \in Calls :
        /\ op[c] = "on" /\ thread[c].state = "running"
        /\ LET t == [thread[c] EXCEPT !.state = "done",
                         !.sleeps = <<U32(thread[c].captured.timeoutMs * 1000)>>]
           IN  /\ thread' = [thread EXCEPT ![c] = t]
               /\ notified' = [notified EXCEPT ![t.callback] = @ + 1]
        /\ UNCHANGED <<nCalls, op, arg, callback, pc, status, ret, written,
                       frame, kEffectMillis>>

\* Vibrator::perform (strength is not used by the code)
Perform(effects) ==
    \E c \in Calls, effect \in effects, hasCallback \in BOOLEAN :
        /\ Enter(c, "perform", Args(0, effect, <<>>), hasCallback)
        /\ IF effect \in SupportedEffects
           THEN /\ written' = [written EXCEPT ![c] = PerformWrites(effect)]
                /\ thread' = [thread EXCEPT ![c] =
                                IF hasCallback THEN StartThread(c, NoCapture)
                                ELSE NoThread]
                /\ ret' = [ret EXCEPT ![c] = EffectTimeMs(effect)]
                /\ Return(c, "OK")
           ELSE /\ Return(c, "EX_UNSUPPORTED_OPERATION")
                /\ UNCHANGED <<written, thread, ret>>
        /\ UNCHANGED <<frame, notified>>

\* the thread of perform: usleep(kEffectMillis * 1000); callback->onComplete()
PerformThread ==
    \E c \in Calls :
        /\ op[c] = "perform" /\ thread[c].state = "running"
        /\ LET t == [thread[c] EXCEPT !.state = "done",
                         !.sleeps = <<U32(kEffectMillis * 1000)>>]
           IN  /\ thread' = [thread EXCEPT ![c] = t]
               /\ notified' = [notified EXCEPT ![t.callback] = @ + 1]
        /\ UNCHANGED <<nCalls, op, arg, callback, pc, status, ret, written,
                       frame, kEffectMillis>>

\* Vibrator::compose
Compose(requests) ==
    \E c \in Calls, composite \in requests, hasCallback \in BOOLEAN :
        /\ Enter(c, "compose", Args(0, "", composite), hasCallback)
        /\ thread' = [thread EXCEPT ![c] =
                        ThreadOnReturn(ComposeStatus(composite),
                                       IF hasCallback THEN c ELSE 0,
                                       Captured(0, <<0, 0>>, composite))]
        /\ Return(c, ComposeStatus(composite))
        /\ UNCHANGED <<ret, written, frame, notified>>

\* the thread of compose, one iteration of its loop
ComposeThreadEntry ==
    \E c \in Calls :
        /\ op[c] = "compose" /\ thread[c].state = "running"
        /\ thread[c].pos < Len(thread[c].captured.composite)
        /\ thread' = [thread EXCEPT ![c] =
                [@ EXCEPT !.pos = @ + 1,
                          !.sleeps = @ \o ComposeEntrySleeps(
                                thread[c].captured.composite[thread[c].pos + 1])]]
        /\ UNCHANGED <<nCalls, op, arg, callback, pc, status, ret, written,
                       frame, notified, kEffectMillis>>

\* the thread of compose after its loop
ComposeThreadNotify ==
    \E c \in Calls :
        /\ op[c] = "compose" /\ thread[c].state = "running"
        /\ thread[c].pos >= Len(thread[c].captured.composite)
        /\ thread' = [thread EXCEPT ![c] = [@ EXCEPT !.state = "done"]]
        /\ notified' = [h \in Calls |-> notified[h] +
                IF h = thread[c].callback THEN Invocations(thread[c]) ELSE 0]
        /\ UNCHANGED <<nCalls, op, arg, callback, pc, status, ret, written,
                       frame, kEffectMillis>>

\* Vibrator::composePwle is entered
ComposePwle(requests) ==
    \E c \in Calls, composite \in requests, hasCallback \in BOOLEAN :
        /\ Enter(c, "composePwle", Args(0, "", composite), hasCallback)
        /\ pc' = [pc EXCEPT ![c] = "entered"]
        /\ UNCHANGED <<status, ret, written, frame, thread, notified>>

\* composePwle up to its for loop
PwleBegin ==
    \E c \in Calls :
        /\ op[c] = "composePwle" /\ pc[c] = "entered"
        /\ IF PwleSizeOk(arg[c].composite)
           THEN /\ frame' = [frame EXCEPT ![Frame(c)] = PwleEnter]
                /\ pc' = [pc EXCEPT ![c] = "loop"]
                /\ UNCHANGED status
           ELSE /\ Return(c, "EX_ILLEGAL_ARGUMENT")
                /\ UNCHANGED frame
        /\ UNCHANGED <<nCalls, op, arg, callback, ret, written, thread,
                       notified, kEffectMillis>>

\* composePwle, one iteration of its for loop
PwleSegment ==
    \E c \in Calls :
        /\ op[c] = "composePwle" /\ pc[c] = "loop"
        /\ frame[Frame(c)].pos < Len(arg[c].composite)
        /\ LET l == frame[Frame(c)]
               r == PwleStep(l, arg[c].composite[l.pos + 1])
           IN  /\ frame' = [frame EXCEPT ![Frame(c)] = r.frame]
               /\ IF r.status = "none"
                  THEN UNCHANGED <<pc, status>>
                  ELSE Return(c, r.status)
        /\ UNCHANGED <<nCalls, op, arg, callback, ret, written, thread,
                       notified, kEffectMillis>>

\* composePwle after its for loop
PwleFinish ==
    \E c \in Calls :
        /\ op[c] = "composePwle" /\ pc[c] = "loop"
        /\ frame[Frame(c)].pos >= Len(arg[c].composite)
        /\ thread' = [thread EXCEPT ![c] =
                ThreadOnReturn("OK", callback[c],
                    Captured(0, frame[Frame(c)].totalDuration, <<>>))]
        /\ Return(c, "OK")
        /\ UNCHANGED <<nCalls, op, arg, callback, ret, written, frame,
                       notified, kEffectMillis>>

\* the thread of composePwle
PwleThread ==
    \E c \in Calls :
        /\ op[c] = "composePwle" /\ thread[c].state = "running"
        /\ LET t == [thread[c] EXCEPT !.state = "done",
                         !.sleeps = <<U32Mul(thread[c].captured.totalDuration, 1000)>>]
           IN  /\ thread' = [thread EXCEPT ![c] = t]
               /\ notified' = [h \in Calls |-> notified[h] +
                        IF h = t.callback THEN Invocations(t) ELSE 0]
        /\ UNCHANGED <<nCalls, op, arg, callback, pc, status, ret, written,
                       frame, kEffectMillis>>

ThreadStep ==
    OnThread \/ PerformThread \/ ComposeThreadEntry \/ ComposeThreadNotify
        \/ PwleThread

PwleRun == PwleBegin \/ PwleSegment \/ PwleFinish

Next ==
    \/ Off
    \/ On(OnTimeouts)
    \/ Perform(PerformEffects)
    \/ Compose(ComposeRequests)
    \/ ComposePwle(PwleRequests)
    \/ PwleBegin
    \/ PwleSegment
    \/ PwleFinish
    \/ OnThread
    \/ PerformThread
    \/ ComposeThreadEntry
    \/ ComposeThreadNotify
    \/ PwleThread

Spec == Init /\ [][Next]_vars

\* the same service with fewer kinds of request, for the properties of
\* whole behaviours
FairNext ==
    \/ Off
    \/ On(FairOnTimeouts)
    \/ Perform(FairPerformEffects)
    \/ Compose(FairComposeRequests)
    \/ ComposePwle(FairPwleRequests)
    \/ PwleBegin
    \/ PwleSegment
    \/ PwleFinish
    \/ OnThread
    \/ PerformThread
    \/ ComposeThreadEntry
    \/ ComposeThreadNotify
    \/ PwleThread

\* a call that has started runs on, and so does every detached thread
FairSpec ==
    Init /\ [][FairNext]_vars /\ WF_vars(PwleRun) /\ WF_vars(ThreadStep)

\* one call of compose or composePwle on a request from the limit sets
ComposeAtLimits == nCalls = 0 /\ Compose(LimitComposeRequests)

ComposePwleAtLimits == nCalls = 0 /\ ComposePwle(LimitPwleRequests)

NextLimits ==
    \/ ComposeAtLimits
    \/ ComposePwleAtLimits
    \/ PwleBegin
    \/ PwleSegment
    \/ PwleFinish
    \/ PwleThread
    \/ ComposeThreadEntry
    \/ ComposeThreadNotify

SpecLimits == Init /\ [][NextLimits]_vars

\* one composePwle call on a composition drawn from PwleCompositions
InitPwle ==
    /\ nCalls = 1
    /\ op = [c \in Calls |-> IF c = 1 THEN "composePwle" ELSE "none"]
    /\ \E composite \in PwleCompositions :
            arg = [c \in Calls |-> IF c = 1 THEN Args(0, "", composite)
                                   ELSE NoArgs]
    /\ \E hasCallback \in BOOLEAN :
            callback = [c \in Calls |-> IF c = 1 /\ hasCallback THEN 1 ELSE 0]
    /\ pc = [c \in Calls |-> IF c = 1 THEN "entered" ELSE "idle"]
    /\ status = [c \in Calls |-> "none"]
    /\ ret = [c \in Calls |-> 0]
    /\ written = [c \in Calls |-> <<>>]
    /\ frame = [c \in Calls |-> NoFrame]
    /\ thread = [c \in Calls |-> NoThread]
    /\ notified = [c \in Calls |-> 0]
    /\ kEffectMillis \in KEffectMillisValues

NextPwle ==
    \/ PwleBegin
    \/ PwleSegment
    \/ PwleFinish
    \/ PwleThread

SpecPwle == InitPwle /\ [][NextPwle]_vars

\* ================================================================ claims
\* the composePwle calls that are in their loop or have returned success
PwleLive ==
    {c \in Calls : /\ op[c] = "composePwle"
                   /\ pc[c] \in {"loop", "returned"}
                   /\ status[c] \in {"none", "OK"}}

\* the composePwle calls that have been accepted
PwleAccepted == {c \in Calls : op[c] = "composePwle" /\ status[c] = "OK"}

\* the token that carries a segment's declared duration
RealToken(e, segmentIdx) ==
    IF e.tag = "active"
    THEN ActiveToken(segmentIdx, e.duration, e.endAmplitude, e.endFrequency)
    ELSE BrakingToken(segmentIdx, e.duration, e.braking)

SetupToken(e, segmentIdx) ==
    IF e.tag = "active"
    THEN ActiveToken(segmentIdx, 0, e.startAmplitude, e.startFrequency)
    ELSE BrakingToken(segmentIdx, 0, e.braking)

Continuous(A, B) ==
    /\ FEq(A.endAmplitude, B.startAmplitude)
    /\ FEq(A.endFrequency, B.startFrequency)

\* call c has just encoded its k-th segment B after its (k-1)-th segment A
JustEncodedPair(c, tagA, tagB) ==
    /\ c \in PwleLive
    /\ frame[Frame(c)].pos >= 2
    /\ arg[c].composite[frame[Frame(c)].pos - 1].tag = tagA
    /\ arg[c].composite[frame[Frame(c)].pos].tag = tagB

\* C1: when active segment B follows active segment A and B starts exactly
\* at A's end amplitude and end frequency, the command ends with A's real
\* token directly followed by B's real token (no setup token between them),
\* and the segment index is 2 past the index of A's real token.
C1_ContinuousPairNoSetup ==
    \A c \in Calls :
        JustEncodedPair(c, "active", "active") =>
            LET l == frame[Frame(c)]
                A == arg[c].composite[l.pos - 1]
                B == arg[c].composite[l.pos]
                n == Len(l.pwleBuilder)
            IN  Continuous(A, B) =>
                    /\ n >= 3
                    /\ l.pwleBuilder[n - 1] = RealToken(A, l.segmentIdx - 2)
                    /\ l.pwleBuilder[n] = RealToken(B, l.segmentIdx - 1)
                    /\ l.segmentIdx = l.pwleBuilder[n - 1].idx + 2

C1_Witness ==
    \E c \in Calls :
        /\ JustEncodedPair(c, "active", "active")
        /\ Continuous(arg[c].composite[frame[Frame(c)].pos - 1], arg[c].composite[frame[Frame(c)].pos])
        /\ status[c] = "OK"
        /\ frame[Frame(c)].segmentIdx = 3

\* C2: when active segment B follows active segment A and B's start
\* amplitude or start frequency differs from A's end values, the command
\* ends with A's real token, then a zero-duration setup token carrying B's
\* start amplitude and frequency, then B's real token; the segment index is
\* 3 past the index of A's real token.
C2_DiscontinuousPairSetup ==
    \A c \in Calls :
        JustEncodedPair(c, "active", "active") =>
            LET l == frame[Frame(c)]
                A == arg[c].composite[l.pos - 1]
                B == arg[c].composite[l.pos]
                n == Len(l.pwleBuilder)
            IN  ~Continuous(A, B) =>
                    /\ n >= 4
                    /\ l.pwleBuilder[n - 2] = RealToken(A, l.segmentIdx - 3)
                    /\ l.pwleBuilder[n - 1] = SetupToken(B, l.segmentIdx - 2)
                    /\ l.pwleBuilder[n - 1].T = 0
                    /\ l.pwleBuilder[n] = RealToken(B, l.segmentIdx - 1)
                    /\ l.segmentIdx = l.pwleBuilder[n - 2].idx + 3

\* a pair that agrees in amplitude and differs in frequency only
C2_Witness ==
    \E c \in Calls :
        /\ JustEncodedPair(c, "active", "active")
        /\ status[c] = "OK"
        /\ LET A == arg[c].composite[frame[Frame(c)].pos - 1]
               B == arg[c].composite[frame[Frame(c)].pos]
           IN  /\ FEq(A.endAmplitude, B.startAmplitude)
               /\ ~FEq(A.endFrequency, B.startFrequency)
        /\ frame[Frame(c)].segmentIdx = 4

\* C3: right after a braking segment is encoded, the command ends with
\* exactly two tokens of that segment (setup with duration 0, then the real
\* token), directly after the previous segment's real token or the header,
\* and the cursor is (-1, -1); right after an active segment that follows a
\* braking segment, the command ends with the braking segment's real token,
\* the active segment's setup token and its real token.
C3_BrakingTwoTokensAndReset ==
    \A c \in PwleLive :
        LET l == frame[Frame(c)]
            n == Len(l.pwleBuilder)
        IN  /\ (l.pos >= 1 /\ arg[c].composite[l.pos].tag = "braking") =>
                    /\ n >= 3
                    /\ l.pwleBuilder[n - 1] = SetupToken(arg[c].composite[l.pos], l.segmentIdx - 2)
                    /\ l.pwleBuilder[n] = RealToken(arg[c].composite[l.pos], l.segmentIdx - 1)
                    /\ l.pwleBuilder[n - 2] =
                          IF l.pos = 1 THEN PwleHeader
                          ELSE RealToken(arg[c].composite[l.pos - 1], l.segmentIdx - 3)
                    /\ l.pos = 1 => l.segmentIdx = 2
                    /\ l.prevEndAmplitude = ResetValue
                    /\ l.prevEndFrequency = ResetValue
            /\ JustEncodedPair(c, "braking", "active") =>
                    /\ n >= 4
                    /\ l.pwleBuilder[n - 2] = RealToken(arg[c].composite[l.pos - 1], l.segmentIdx - 3)
                    /\ l.pwleBuilder[n - 1] = SetupToken(arg[c].composite[l.pos], l.segmentIdx - 2)
                    /\ l.pwleBuilder[n] = RealToken(arg[c].composite[l.pos], l.segmentIdx - 1)

\* active, braking, active: the second active segment starts where the
\* first one ended
C3_Witness ==
    \E c \in Calls :
        /\ JustEncodedPair(c, "braking", "active")
        /\ status[c] = "OK"
        /\ frame[Frame(c)].pos = 3
        /\ arg[c].composite[1].tag = "active"
        /\ Continuous(arg[c].composite[1], arg[c].composite[3])

RECURSIVE SumDurations(_, _)
SumDurations(composite, k) ==
    IF k = 0 THEN 0 ELSE SumDurations(composite, k - 1) + composite[k].duration

\* C4: after any prefix of the segments is encoded the running total is the
\* sum of that prefix's declared durations, and the thread of an accepted
\* request captures the sum of all of them.
C4_TotalIsSumOfDurations ==
    \A c \in PwleLive :
        /\ U32Is(frame[Frame(c)].totalDuration,
                 SumDurations(arg[c].composite, frame[Frame(c)].pos))
        /\ status[c] = "OK" =>
                U32Is(thread[c].captured.totalDuration,
                      SumDurations(arg[c].composite, Len(arg[c].composite)))

\* C10: every segment of an accepted composition has a duration in
\* 0..COMPOSE_PWLE_PRIMITIVE_DURATION_MAX_MS.
C10_AcceptedDurationsInRange ==
    \A c \in PwleAccepted :
        \A i \in 1..Len(arg[c].composite) :
            /\ 0 <= arg[c].composite[i].duration
            /\ arg[c].composite[i].duration <= COMPOSE_PWLE_PRIMITIVE_DURATION_MAX_MS

\* the calls that were accepted and supplied a completion handle
AcceptedWithHandle ==
    {c \in Calls : /\ op[c] \in {"on", "perform", "compose", "composePwle"}
                   /\ status[c] = "OK"
                   /\ callback[c] # 0}

\* C5: every accepted request that supplied a completion handle is
\* eventually notified, and no handle is ever notified more than once; this
\* includes the requests whose wait is 0.
C5_AcceptedEventuallyNotifiedOnce ==
    \A c \in Calls :
        /\ [](notified[c] <= 1)
        /\ (c \in AcceptedWithHandle) ~> (notified[c] = 1)

\* a composePwle of total duration 0, a compose of the empty list and an on
\* with timeout 0 have each been notified
ZeroWaitNotified(c) ==
    /\ c \in AcceptedWithHandle
    /\ notified[c] = 1
    /\ thread[c].state = "done"
    /\ \A i \in DOMAIN thread[c].sleeps : thread[c].sleeps[i] = <<0, 0>>

C5_Witness ==
    \E c \in Calls, d \in Calls :
        /\ ZeroWaitNotified(c) /\ op[c] = "composePwle"
        /\ ZeroWaitNotified(d) /\ op[d] \in {"compose", "on"}

\* C6: whatever the interleaving, the locals of each composePwle call equal
\* what its own loop computes on its own segments from a fresh frame, the
\* thread of each accepted call holds the total and the composition of its
\* own request, and handle h is notified once exactly when the thread of
\* request h has finished, and never otherwise.
C6_NoInterference ==
    \A c \in Calls :
        /\ c \in PwleLive =>
              frame[Frame(c)] =
                  PwleLoop(PwleEnter,
                           SubSeq(arg[c].composite, 1, frame[Frame(c)].pos)).frame
        /\ c \in PwleAccepted =>
              /\ frame[Frame(c)] = PwleLoop(PwleEnter, arg[c].composite).frame
              /\ thread[c].captured.totalDuration = frame[Frame(c)].totalDuration
        /\ (op[c] = "compose" /\ status[c] = "OK") =>
              thread[c].captured.composite = arg[c].composite
        /\ thread[c].state # "none" => thread[c].callback = callback[c]
        /\ notified[c] =
              IF thread[c].state = "done" /\ callback[c] # 0 THEN 1 ELSE 0

\* two composePwle calls are inside their loops at the same time, each with
\* one segment encoded
C6_Witness ==
    \E c \in Calls, d \in Calls :
        /\ c # d
        /\ op[c] = "composePwle" /\ op[d] = "composePwle"
        /\ pc[c] = "loop" /\ pc[d] = "loop"
        /\ frame[Frame(c)].pos = 1 /\ frame[Frame(d)].pos = 1
        /\ arg[c].composite # arg[d].composite

ValidationErrors == {"EX_ILLEGAL_ARGUMENT", "EX_UNSUPPORTED_OPERATION"}

\* the calls of perform, compose and composePwle that returned an error
Rejected ==
    {c \in Calls : /\ op[c] \in {"perform", "compose", "composePwle"}
                   /\ status[c] \in ValidationErrors}

\* C7: a call of perform, compose or composePwle that returned a validation
\* error has written no driver node, has started no thread, and its handle
\* has not been invoked.
C7_RejectedHasNoEffect ==
    \A c \in Rejected :
        /\ written[c] = <<>>
        /\ thread[c].state = "none"
        /\ notified[c] = 0

\* a compose and a composePwle, each rejected at its last entry after a
\* valid one, while every other call has finished
C7_Witness ==
    \E c \in Rejected, d \in Rejected :
        /\ op[c] = "composePwle" /\ frame[Frame(c)].pos = 1 /\ Len(arg[c].composite) = 2
        /\ op[d] = "compose" /\ Len(arg[d].composite) = 2
        /\ ComposeEntryStatus(arg[d].composite[1]) = "OK"

\* C8: an accepted composePwle call has handed its command, the header and
\* all segment tokens, to write_haptic_node by the time its thread exists.
C8_CommandWritten ==
    \A c \in PwleAccepted :
        \E i \in DOMAIN written[c] :
            written[c][i].value = frame[Frame(c)].pwleBuilder

\* C9: perform returns the durationMs of the effect's table entry, and its
\* thread sleeps exactly that long before it notifies.
C9_PerformWaitsReportedDuration ==
    \A c \in Calls :
        (op[c] = "perform" /\ status[c] = "OK") =>
            /\ ret[c] = EffectTimeMs(arg[c].effect)
            /\ thread[c].state = "done" =>
                    thread[c].sleeps = <<U32(ret[c] * 1000)>>

\* C11: a completion thread that has been started is never removed or
\* redirected by any later step (off() and further calls included): if it
\* holds a handle it goes on to invoke that handle, a handle that has been
\* notified once is never notified again, and a call made without a handle
\* is never notified.
C11_NoCancellation ==
    /\ [](\A c \in Calls :
            notified[c] <= 1 /\ (callback[c] = 0 => notified[c] = 0))
    /\ [][\A c \in Calls :
            /\ thread[c].state = "running" =>
                  /\ thread'[c].state \in {"running", "done"}
                  /\ thread'[c].callback = thread[c].callback
            /\ thread[c].state = "done" => thread'[c] = thread[c]
            /\ notified[c] = 1 => notified'[c] = 1]_vars
    /\ \A c \in Calls :
            (thread[c].state = "running" /\ thread[c].callback # 0)
                ~> (thread[c].state = "done" /\ notified[c] = 1)

\* off() has returned while the thread of an earlier call is still waiting
C11_Witness ==
    \E c \in Calls, d \in Calls :
        /\ c < d
        /\ thread[c].state = "running" /\ thread[c].callback = c
        /\ op[d] = "off" /\ status[d] = "OK"

\* x is a number of the interval [lo, hi]
InRange(x, lo, hi) == x # NaN /\ lo <= x /\ x <= hi

\* the limits of the data model on one entry of a primitive composition
EntryInLimits(e) ==
    /\ 0 <= e.delayMs /\ e.delayMs <= COMPOSE_DELAY_MAX_MS
    /\ InRange(e.scale, 0, 100)
    /\ e.primitive \in SupportedPrimitives

\* the limits of the data model on one PWLE segment
SegmentInLimits(e) ==
    /\ 0 <= e.duration
    /\ e.duration <= COMPOSE_PWLE_PRIMITIVE_DURATION_MAX_MS
    /\ IF e.tag = "active"
       THEN /\ InRange(e.startAmplitude, PWLE_LEVEL_MIN, PWLE_LEVEL_MAX)
            /\ InRange(e.endAmplitude, PWLE_LEVEL_MIN, PWLE_LEVEL_MAX)
            /\ InRange(e.startFrequency, PWLE_FREQUENCY_MIN_HZ,
                       PWLE_FREQUENCY_MAX_HZ)
            /\ InRange(e.endFrequency, PWLE_FREQUENCY_MIN_HZ,
                       PWLE_FREQUENCY_MAX_HZ)
       ELSE e.braking \in {BRAKING_NONE, BRAKING_CLAB}

AllInLimits(composite, InLimits(_)) ==
    \A i \in 1..Len(composite) : InLimits(composite[i])

\* the calls of one entry point that have returned
Returned(o) == {c \in Calls : op[c] = o /\ pc[c] = "returned"}

\* C12: compose returns ok, with its thread started, for every composition
\* of 0..COMPOSE_SIZE_MAX entries that are all within the limits, and
\* returns EX_ILLEGAL_ARGUMENT for COMPOSE_SIZE_MAX + 1 entries whatever the
\* entries are.
C12_ComposeSizeLimit ==
    \A c \in Returned("compose") :
        /\ (/\ Len(arg[c].composite) <= COMPOSE_SIZE_MAX
            /\ AllInLimits(arg[c].composite, EntryInLimits)) =>
                status[c] = "OK" /\ thread[c].state # "none"
        /\ Len(arg[c].composite) = COMPOSE_SIZE_MAX + 1 =>
                status[c] = "EX_ILLEGAL_ARGUMENT"

\* a composition of exactly COMPOSE_SIZE_MAX entries was accepted and its
\* thread has gone through all of them
C12_Witness ==
    \E c \in Returned("compose") :
        /\ Len(arg[c].composite) = COMPOSE_SIZE_MAX
        /\ status[c] = "OK"
        /\ thread[c].pos = COMPOSE_SIZE_MAX

\* C13: composePwle returns EX_ILLEGAL_ARGUMENT for a composition of length
\* 0 or of length above COMPOSE_PWLE_SIZE_MAX, and ok for every composition
\* of 1..COMPOSE_PWLE_SIZE_MAX segments that are all within the limits.
C13_PwleSizeLimit ==
    \A c \in Returned("composePwle") :
        /\ (Len(arg[c].composite) = 0
              \/ Len(arg[c].composite) > COMPOSE_PWLE_SIZE_MAX) =>
                status[c] = "EX_ILLEGAL_ARGUMENT"
        /\ (/\ Len(arg[c].composite) \in 1..COMPOSE_PWLE_SIZE_MAX
            /\ AllInLimits(arg[c].composite, SegmentInLimits)) =>
                status[c] = "OK"

\* a composition of exactly COMPOSE_PWLE_SIZE_MAX segments was accepted
C13_Witness ==
    \E c \in Returned("composePwle") :
        /\ Len(arg[c].composite) = COMPOSE_PWLE_SIZE_MAX
        /\ status[c] = "OK"
        /\ frame[Frame(c)].pos = COMPOSE_PWLE_SIZE_MAX

\* C14: in the command of every composePwle call the k-th token carries
\* segment index k - 1 (0, 1, 2, ... with no gap and no repeat) and the next
\* free index is the number of tokens; every iteration of the loop takes the
\* next input segment, leaves the tokens already emitted in place, and
\* appends only tokens of that segment, so tokens come in input order.
C14_IndicesAndOrder ==
    /\ [](\A c \in PwleLive :
            LET l == frame[Frame(c)]
            IN  /\ l.pwleBuilder[1] = PwleHeader
                /\ \A i \in 2..Len(l.pwleBuilder) : l.pwleBuilder[i].idx = i - 2
                /\ l.segmentIdx = Len(l.pwleBuilder) - 1)
    /\ [][\A c \in Calls :
            (/\ op[c] = "composePwle" /\ pc[c] = "loop"
             /\ frame'[Frame(c)] # frame[Frame(c)]) =>
                LET old == frame[Frame(c)]
                    new == frame'[Frame(c)]
                    e == arg[c].composite[old.pos + 1]
                IN  /\ new.pos = old.pos + 1
                    /\ Len(new.pwleBuilder) > Len(old.pwleBuilder)
                    /\ SubSeq(new.pwleBuilder, 1, Len(old.pwleBuilder))
                            = old.pwleBuilder
                    /\ \A i \in (Len(old.pwleBuilder) + 1)..Len(new.pwleBuilder) :
                            new.pwleBuilder[i] \in
                                {SetupToken(e, i - 2), RealToken(e, i - 2)}]_vars

\* three segments accepted: an active one, a braking one and an active one,
\* six tokens in all
C14_Witness ==
    \E c \in PwleAccepted :
        /\ Len(arg[c].composite) = 3
        /\ arg[c].composite[2].tag = "braking"
        /\ arg[c].composite[1].tag = "active"
        /\ frame[Frame(c)].segmentIdx = 6
        /\ Len(frame[Frame(c)].pwleBuilder) = 7

\* [Active(100 ms, amplitude 0.0 to 0.5, 150 Hz to 150 Hz), Braking(50 ms, CLAB)]
ExamplePwle ==
    <<Active(100, 0, 50, 15000, 15000), Braking(50, BRAKING_CLAB)>>

\* C15: composePwle on the example returns ok with total duration 150 and a
\* command of five groups: the header, then the four tokens with indices
\* 0..3 (setup and real token of the active segment, setup and real token
\* of the braking segment); its thread sleeps 150000 microseconds.
C15_ExampleEncoding ==
    \A c \in Returned("composePwle") :
        arg[c].composite = ExamplePwle =>
            /\ status[c] = "OK"
            /\ frame[Frame(c)].totalDuration = <<0, 150>>
            /\ frame[Frame(c)].segmentIdx = 4
            /\ frame[Frame(c)].pwleBuilder =
                <<[S |-> 0, WF |-> 4, RP |-> 0, WT |-> 0],
                  [idx |-> 0, T |-> 0, L |-> 0, F |-> 15000,
                   C |-> 1, B |-> 0, AR |-> 0, V |-> 0],
                  [idx |-> 1, T |-> 100, L |-> 50, F |-> 15000,
                   C |-> 1, B |-> 0, AR |-> 0, V |-> 0],
                  [idx |-> 2, T |-> 0, L |-> 0, F |-> 0,
                   C |-> 0, B |-> 1, AR |-> 0, V |-> 0],
                  [idx |-> 3, T |-> 50, L |-> 0, F |-> 0,
                   C |-> 0, B |-> 1, AR |-> 0, V |-> 0]>>
            /\ thread[c].state # "none"
            /\ thread[c].captured.totalDuration = <<0, 150>>
            /\ thread[c].state = "done" =>
                    thread[c].sleeps = <<<<150000 \div Half, 150000 % Half>>>>

\* the example has been accepted and its thread has finished
C15_Witness ==
    \E c \in Returned("composePwle") :
        /\ arg[c].composite = ExamplePwle
        /\ status[c] = "OK"
        /\ thread[c].state = "done"

\* the sum of f(i) for i in lo..hi
RECURSIVE SumOver(_, _, _)
SumOver(f(_), lo, hi) ==
    IF lo > hi THEN 0
    ELSE IF lo = hi THEN f(lo)
    ELSE LET mid == (lo + hi) \div 2
         IN  SumOver(f, lo, mid) + SumOver(f, mid + 1, hi)

\* the usleep arguments in sleeps add up to exactly us microseconds
SleptIs(sleeps, us) ==
    LET Hi(i) == sleeps[i][1]
        Lo(i) == sleeps[i][2]
        lows == SumOver(Lo, 1, Len(sleeps))
    IN  /\ (us - lows) % Half = 0
        /\ SumOver(Hi, 1, Len(sleeps)) = (us - lows) \div Half

\* the fixed duration of a primitive kind, in ms
FixedDurationMs(primitive) == IF primitive = "NOOP" THEN 0 ELSE 100

\* C16: when the thread of an accepted compose has gone through k entries
\* it has waited exactly the sum of delayMs plus the fixed duration of the
\* primitive over these k entries, and the handle is notified only after
\* all entries.
C16_ComposeWaitsSum ==
    \A c \in Calls :
        (op[c] = "compose" /\ thread[c].state # "none") =>
            LET composite == thread[c].captured.composite
                EntryMs(i) == composite[i].delayMs
                                + FixedDurationMs(composite[i].primitive)
            IN  /\ SleptIs(thread[c].sleeps,
                           1000 * SumOver(EntryMs, 1, thread[c].pos))
                /\ notified[c] = 1 => thread[c].pos = Len(composite)

\* C20: every entry of a composition that compose accepted, and so every
\* entry its thread waits on, has 0 <= delayMs <= COMPOSE_DELAY_MAX_MS, a
\* scale in [0, 1] and a supported primitive.
C20_AcceptedEntriesInLimits ==
    \A c \in Calls :
        (op[c] = "compose" /\ (status[c] = "OK" \/ thread[c].state # "none")) =>
            AllInLimits(arg[c].composite, EntryInLimits)

\* a segment that violates one of the limits composePwle enforces
PwleLimitViolated(e) ==
    IF e.tag = "active"
    THEN \/ e.duration < 0
         \/ e.duration > COMPOSE_PWLE_PRIMITIVE_DURATION_MAX_MS
         \/ ~InRange(e.startAmplitude, PWLE_LEVEL_MIN, PWLE_LEVEL_MAX)
         \/ ~InRange(e.endAmplitude, PWLE_LEVEL_MIN, PWLE_LEVEL_MAX)
         \/ ~InRange(e.startFrequency, PWLE_FREQUENCY_MIN_HZ,
                     PWLE_FREQUENCY_MAX_HZ)
         \/ ~InRange(e.endFrequency, PWLE_FREQUENCY_MIN_HZ,
                     PWLE_FREQUENCY_MAX_HZ)
    ELSE \/ e.braking > BRAKING_CLAB
         \/ e.duration > COMPOSE_PWLE_PRIMITIVE_DURATION_MAX_MS

\* C17: a composePwle call whose composition has a segment violating a
\* limit (active: duration outside [0, 16383], an amplitude outside [0, 1],
\* a frequency outside [140, 160] Hz; braking: type above CLAB, duration
\* above 16383) returns EX_ILLEGAL_ARGUMENT, never another status.
C17_LimitViolationsRejected ==
    \A c \in Returned("composePwle") :
        (\E i \in 1..Len(arg[c].composite) :
            PwleLimitViolated(arg[c].composite[i]))
            => status[c] = "EX_ILLEGAL_ARGUMENT"

\* the error the limits assign to one entry of a primitive composition,
\* "OK" when it violates none
EntryError(e) ==
    IF e.delayMs > COMPOSE_DELAY_MAX_MS \/ ~InRange(e.scale, 0, 100)
    THEN "EX_ILLEGAL_ARGUMENT"
    ELSE IF e.primitive \notin SupportedPrimitives
         THEN "EX_UNSUPPORTED_OPERATION"
         ELSE "OK"

\* C18: a compose call within the size limit returns the error of the
\* first entry, in list order, that violates a limit: EX_ILLEGAL_ARGUMENT
\* for a delay above COMPOSE_DELAY_MAX_MS or a scale outside [0, 1],
\* EX_UNSUPPORTED_OPERATION only for an unsupported primitive with delay
\* and scale in range; later entries do not change it.
C18_FirstViolationDecides ==
    \A c \in Returned("compose") :
        LET composite == arg[c].composite
            bad == {i \in 1..Len(composite) : EntryError(composite[i]) # "OK"}
        IN  (Len(composite) <= COMPOSE_SIZE_MAX /\ bad # {}) =>
                status[c] = EntryError(composite[
                                CHOOSE i \in bad : \A j \in bad : i <= j])

\* C17 and C18 on the numbers: the same statements for compositions none
\* of whose fields is NaN
NoNaNEntry(e) ==
    IF "scale" \in DOMAIN e
    THEN e.scale # NaN
    ELSE e.tag = "active" =>
            /\ e.startAmplitude # NaN /\ e.endAmplitude # NaN
            /\ e.startFrequency # NaN /\ e.endFrequency # NaN

LimitViolationsRejectedOnNumbers ==
    \A c \in Returned("composePwle") :
        (/\ AllInLimits(arg[c].composite, NoNaNEntry)
         /\ \E i \in 1..Len(arg[c].composite) :
                PwleLimitViolated(arg[c].composite[i]))
            => status[c] = "EX_ILLEGAL_ARGUMENT"

FirstViolationDecidesOnNumbers ==
    \A c \in Returned("compose") :
        LET composite == arg[c].composite
            bad == {i \in 1..Len(composite) : EntryError(composite[i]) # "OK"}
        IN  (/\ Len(composite) <= COMPOSE_SIZE_MAX /\ bad # {}
             /\ AllInLimits(composite, NoNaNEntry)) =>
                status[c] = EntryError(composite[
                                CHOOSE i \in bad : \A j \in bad : i <= j])

\* C19: every token has AR = 0 and V = 0. The tokens one loop iteration
\* appends are, for an active segment, an optional setup token with T = 0,
\* L = start amplitude, F = start frequency and B = 0, then the real token
\* with T = duration, L = end amplitude, F = end frequency and B = 0; for a
\* braking segment, two tokens with L = 0, F = 0 and B = braking type, the
\* first with T = 0 and the second with T = duration.
C19_TokenContents ==
    /\ [](\A c \in PwleLive :
            \A i \in 2..Len(frame[Frame(c)].pwleBuilder) :
                /\ frame[Frame(c)].pwleBuilder[i].AR = 0
                /\ frame[Frame(c)].pwleBuilder[i].V = 0)
    /\ [][\A c \in Calls :
            (/\ op[c] = "composePwle" /\ pc[c] = "loop"
             /\ frame'[Frame(c)] # frame[Frame(c)]) =>
                LET old == frame[Frame(c)]
                    new == frame'[Frame(c)]
                    e == arg[c].composite[old.pos + 1]
                    added == SubSeq(new.pwleBuilder, Len(old.pwleBuilder) + 1,
                                    Len(new.pwleBuilder))
                    n == Len(added)
                IN  IF e.tag = "active"
                    THEN /\ n \in {1, 2}
                         /\ added[n].T = e.duration
                         /\ added[n].L = e.endAmplitude
                         /\ added[n].F = e.endFrequency
                         /\ added[n].B = 0
                         /\ n = 2 =>
                                /\ added[1].T = 0
                                /\ added[1].L = e.startAmplitude
                                /\ added[1].F = e.startFrequency
                                /\ added[1].B = 0
                    ELSE /\ n = 2
                         /\ added[1].T = 0
                         /\ added[2].T = e.duration
                         /\ \A i \in 1..2 :
                                /\ added[i].L = 0
                                /\ added[i].F = 0
                                /\ added[i].B = e.braking]_vars

\* a CLAB braking segment of 50 ms, then an active segment that rises from
\* amplitude 0.0 to 0.5 and from 150 Hz to 160 Hz, both encoded: four tokens
C19_Witness ==
    \E c \in PwleAccepted :
        /\ Len(arg[c].composite) = 2
        /\ arg[c].composite[1] = Braking(50, BRAKING_CLAB)
        /\ arg[c].composite[2] = Active(100, 0, 50, 15000, 16000)
        /\ Len(frame[Frame(c)].pwleBuilder) = 5
        /\ frame[Frame(c)].pwleBuilder[5].L = 50
        /\ frame[Frame(c)].pwleBuilder[5].F = 16000

\* the largest total of an accepted composition with durations in range
PwleTotalMax == COMPOSE_PWLE_SIZE_MAX * COMPOSE_PWLE_PRIMITIVE_DURATION_MAX_MS

\* the uint32_t u is at most the integer n
U32AtMost(u, n) ==
    u[1] < n \div Half \/ (u[1] = n \div Half /\ u[2] <= n % Half)

\* the composition of call c passes every check of composePwle
PwlePassesChecks(c) ==
    /\ PwleSizeOk(arg[c].composite)
    /\ \A i \in 1..Len(arg[c].composite) :
            IF arg[c].composite[i].tag = "active"
            THEN ActiveValid(arg[c].composite[i])
            ELSE BrakingValid(arg[c].composite[i])

\* C21: for a composition that composePwle accepts, the running total
\* totalDuration is at most 127 * 16383 = 2080641 after every iteration of
\* the loop (it never wraps), and the argument of usleep is exactly
\* totalDuration * 1000, a value below 2^32.
C21_TotalNeverWraps ==
    \A c \in PwleLive :
        PwlePassesChecks(c) =>
            LET total == frame[Frame(c)].totalDuration
            IN  /\ U32AtMost(total, PwleTotalMax)
                /\ thread[c].state = "done" =>
                        /\ U32AtMost(thread[c].captured.totalDuration,
                                     PwleTotalMax)
                        /\ U32Is(thread[c].sleeps[1],
                                 1000 * (total[1] * Half + total[2]))

\* C21 on the compositions whose durations are not negative
TotalNeverWrapsOnDurationsInRange ==
    \A c \in PwleLive :
        (/\ PwlePassesChecks(c)
         /\ \A i \in 1..Len(arg[c].composite) :
                arg[c].composite[i].duration >= 0) =>
            LET total == frame[Frame(c)].totalDuration
            IN  /\ U32AtMost(total, PwleTotalMax)
                /\ thread[c].state = "done" =>
                        /\ U32AtMost(thread[c].captured.totalDuration,
                                     PwleTotalMax)
                        /\ U32Is(thread[c].sleeps[1],
                                 1000 * (total[1] * Half + total[2]))
====
